---- MODULE Spec2Model ----
(***************************************************************************)
(* A model of the da-edge front-end: the three-phase page-load bootstrap   *)
(* of scripts/scripts.js (eager, lazy, delayed), the block loader of       *)
(* scripts/aem.js as the reference documents it, and the block decorators  *)
(* whose code the repository shows (cards, faq, latest-posts, hero).       *)
(*                                                                         *)
(* Each subsystem has its own variables and its own specification; a       *)
(* specification keeps the variables of the other subsystems at rest.      *)
(***************************************************************************)
EXTENDS Integers, Sequences, FiniteSets, TLC

VARIABLES
    \* ---- the page (input of the bootstrap) ----
    hasMain,      \* doc.querySelector('main') is not null
    page,         \* page[s] = number of blocks of the s-th .section of main
    \* ---- the bootstrap sequencer (scripts/scripts.js) ----
    hpc,          \* position of the DOMContentLoaded handler
    eager,        \* state of the promise of loadEager(document)
    lazy,         \* position / state of loadLazy(document)
    calls,        \* how often each phase function has been invoked
    timer,        \* the timer that loadDelayed schedules
    elapsed,      \* milliseconds since the timer was scheduled
    imported,     \* import('./delayed.js') has been issued
    css,          \* hrefs handed to loadCSS by scripts.js
    \* ---- the block loader (scripts/aem.js) ----
    ld,           \* the loadSection / loadSections call in flight
    bstat,        \* per block: "none", "css", "js", "ready", "decorating", "loaded"
    fetched,      \* the resources <<block, "css" or "js">> that have been loaded
    mainDecor,    \* the decoration functions that have run on main, in order
    secCalls,     \* the calls of loadSection so far, in order
    decorated,    \* per block: number of calls of its decorate function
    hdr,          \* state of the promise of loadHeader
    ftr,          \* state of the promise of loadFooter
    \* ---- the cards block (blocks/cards/cards.js) ----
    cardsPc,      \* "off", "fresh" (as authored), "decorated", "redecorated"
    cardsOrig,    \* the block element as the platform delivered it
    cardsBlock,   \* the block element now
    \* ---- the faq block (blocks/faq/faq.js) ----
    faqPc,        \* "off", "fresh", "decorated", or "threw" (decorate threw)
    faqItems,     \* the items (rows) of the block, in order
    faqClicks,    \* number of clicks so far
    faqLast,      \* the item whose button got the last click, 0 before any
    \* ---- the latest-posts block (blocks/latest-posts/latest-posts.js) ----
    postsPc,      \* position of decorate: "off", "idle", "fetching", "parsing", "rendering", "settled"
    postsNet,     \* what the network will answer (the input of the run)
    postsHtml,    \* the content of the block
    postsFetches, \* number of fetch calls
    postsErrors,  \* number of console.error calls
    postsResult,  \* the promise of decorate: "none", "pending", "resolved", "rejected"
    \* ---- window.hlx written by several decorators ----
    hlx,          \* the global configuration object: key -> value, or Absent
    hlxVal,       \* the value each decorator stores under its own key
    hlxPc,        \* per decorator: "off", "todo", "wrote", "done"
    hlxSeen,      \* per decorator: what it read of its neighbour's key
    \* ---- the hero script (blocks/hero/hero.js) ----
    heroPc,       \* "off", "parsed" (the script has not run), "ran", "reran"
    heroOrig,     \* the hero blocks of the document as the platform delivered them
    heroDoc,      \* the hero blocks of the document now
    heroWrites,   \* number of assignments to h1Element.innerHTML
    \* ---- getLocale (scripts/scripts.js) ----
    locPc,        \* "off", "idle" or "returned"
    locPath,      \* window.location.pathname
    locKeys,      \* the keys of localesConfig in their enumeration order
    locMeta,      \* getMetadata('locale'), the empty string when there is none
    locLang,      \* document.documentElement.lang
    locResult,    \* what getLocale returned
    \* ---- loadCSS (scripts/aem.js) ----
    sheetLinks,   \* per href: number of stylesheet links in the head
    sheetLoaded,  \* the hrefs whose stylesheet has been loaded
    sheetCalls,   \* the calls of loadCSS so far: href and state of the promise
    \* ---- the error-handling pattern of a data-loading block ----
    dataPc,       \* position of decorate: "off", "idle", "fetching", "parsing", "settled"
    dataNet,      \* what the network and render will do (the input of the run)
    dataHtml,     \* the content of the block: "authored", "rendered", "unavailable"
    dataRenders,  \* number of calls of render
    dataErrors,   \* number of console.error calls
    dataResult    \* the promise of decorate: "none", "pending", "resolved"

bootVars == <<hasMain, page, hpc, eager, lazy, calls, timer, elapsed, imported,
              css, ld, bstat, fetched, mainDecor, secCalls, decorated, hdr,
              ftr>>

cardsVars == <<cardsPc, cardsOrig, cardsBlock>>

faqVars == <<faqPc, faqItems, faqClicks, faqLast>>

postsVars == <<postsPc, postsNet, postsHtml, postsFetches, postsErrors, postsResult>>

hlxVars == <<hlx, hlxVal, hlxPc, hlxSeen>>

heroVars == <<heroPc, heroOrig, heroDoc, heroWrites>>

localeVars == <<locPc, locPath, locKeys, locMeta, locLang, locResult>>

sheetVars == <<sheetLinks, sheetLoaded, sheetCalls>>

dataVars == <<dataPc, dataNet, dataHtml, dataRenders, dataErrors, dataResult>>

vars == <<bootVars, cardsVars, faqVars, postsVars, hlxVars, heroVars,
          localeVars, sheetVars, dataVars>>

(***************************************************************************)
(* Bounds of the model.                                                    *)
(***************************************************************************)
MaxSections == 2
MaxBlocks == 2
MaxRows == 2
MaxCells == 1
MaxItems == 4
MaxClicks == 3
MaxPosts == 4
NumDecorators == 3
MaxHeroes == 2
MaxPathLen == 5
MaxCssCalls == 4
TickMs == 1000

(***************************************************************************)
(* Program constants.                                                      *)
(***************************************************************************)
\* window.setTimeout(() => import('./delayed.js'), 3000)
DelayedTimeoutMs == 3000

\* latest-posts.js: .slice(0, 3)
LatestPostsCount == 3

Phases == {"loadEager", "loadLazy", "loadDelayed"}

(***************************************************************************)
(* The page: main with its sections and their blocks, header and footer.   *)
(***************************************************************************)
HeaderBlock == <<"header", 0, 0>>
FooterBlock == <<"footer", 0, 0>>

MainBlock(s, b) == <<"main", s, b>>

Pages == UNION {[1..n -> 0..MaxBlocks] : n \in 0..MaxSections}

MainBlocks == UNION {{MainBlock(s, b) : b \in 1..page[s]} : s \in 1..Len(page)}

AllBlocks == MainBlocks \cup {HeaderBlock, FooterBlock}

\* Number of blocks of section s; main.querySelector('.section') is null when
\* main has no section, and a null section holds no block.
NumBlocks(s) == IF s \in 1..Len(page) THEN page[s] ELSE 0

NoLoad == [who |-> "none", state |-> "idle", sec |-> 0, blk |-> 0]

nonBoot == <<cardsVars, faqVars, postsVars, hlxVars, heroVars, localeVars,
             sheetVars, dataVars>>

TypeOK ==
    /\ hasMain \in BOOLEAN
    /\ page \in Pages
    /\ hpc \in {"idle", "awaitEager", "awaitLazy", "done", "failed"}
    /\ eager \in {"notStarted", "awaitSection", "resolved", "rejected"}
    /\ lazy \in {"notStarted", "awaitSections", "awaitHeader", "awaitFooter",
                 "resolved", "rejected"}
    /\ calls \in [Phases -> Nat]
    /\ timer \in {"unset", "pending", "fired"}
    /\ elapsed \in 0..(DelayedTimeoutMs + TickMs)
    /\ imported \in BOOLEAN
    /\ css \subseteq {"lazy-styles.css", "delayed.css"}
    /\ ld.who \in {"none", "loadSection", "loadSections"}
    /\ ld.state \in {"idle", "callback", "next", "block", "resolved", "rejected"}
    /\ bstat \in [AllBlocks -> {"none", "css", "js", "ready", "decorating",
                              "loaded"}]
    /\ fetched \subseteq AllBlocks \X {"css", "js"}
    /\ mainDecor \in Seq({"decorateSections", "decorateBlocks"})
    /\ \A i \in 1..Len(secCalls) : secCalls[i].sec \in 0..Len(page)
    /\ decorated \in [AllBlocks -> Nat]
    /\ hdr \in {"none", "loading", "loaded", "failed"}
    /\ ftr \in {"none", "loading", "loaded", "failed"}

(***************************************************************************)
(* Init: the document has been parsed, DOMContentLoaded has not fired.     *)
(* A document without main has no section.                                 *)
(***************************************************************************)
BootInit ==
    /\ hasMain \in BOOLEAN
    /\ page \in Pages
    /\ (~hasMain => page = <<>>)
    /\ hpc = "idle"
    /\ eager = "notStarted"
    /\ lazy = "notStarted"
    /\ calls = [p \in Phases |-> 0]
    /\ timer = "unset"
    /\ elapsed = 0
    /\ imported = FALSE
    /\ css = {}
    /\ ld = NoLoad
    /\ bstat = [b \in AllBlocks |-> "none"]
    /\ fetched = {}
    /\ mainDecor = <<>>
    /\ secCalls = <<>>
    /\ decorated = [b \in AllBlocks |-> 0]
    /\ hdr = "none"
    /\ ftr = "none"

(***************************************************************************)
(* scripts/aem.js: loadBlock, loadSection, loadSections, loadHeader,       *)
(* loadFooter, as the utilities reference documents them.                  *)
(***************************************************************************)

\* A block is loaded (and its decorate called) only if no load of it has begun.
BlockNeedsLoad_Always(b) == TRUE

BlockNeedsLoad(b) == bstat[b] = "none"

\* loadSection(section, loadCallback): the optional callback is called before
\* the blocks are loaded; without a callback the blocks are loaded at once.
loadSection(who, s, withCallback) ==
    [who |-> who, state |-> IF withCallback THEN "callback" ELSE "next",
     sec |-> s, blk |-> 1]

\* The entry of secCalls for the call of loadSection that begins load l: the
\* section, whether a load callback was passed, the function that runs the
\* load, and what had been run on main when the call was made.
SectionCall(l, decor) ==
    [sec |-> l.sec, callback |-> l.state = "callback", who |-> l.who,
     decor |-> decor]

\* waitForFirstImage(section) resolves: the blocks of the section follow.
waitForFirstImage ==
    /\ ld.state = "callback"
    /\ ld' = [ld EXCEPT !.state = "next"]
    /\ UNCHANGED <<hasMain, page, hpc, eager, lazy, calls, timer, elapsed,
                   imported, css, bstat, decorated, hdr, ftr>>
    /\ UNCHANGED <<fetched, mainDecor, secCalls>>
    /\ UNCHANGED nonBoot

\* loadBlock(block), step 1: /blocks/{block-name}/{block-name}.css is
\* requested. A block that is loading or loaded is left alone.
loadBlock ==
    /\ ld.state = "next"
    /\ ld.blk <= NumBlocks(ld.sec)
    /\ LET b == MainBlock(ld.sec, ld.blk) IN
          IF BlockNeedsLoad(b)
          THEN /\ bstat' = [bstat EXCEPT ![b] = "css"]
               /\ ld' = [ld EXCEPT !.state = "block"]
          ELSE /\ ld' = [ld EXCEPT !.blk = @ + 1]
               /\ UNCHANGED bstat
    /\ UNCHANGED <<hasMain, page, hpc, eager, lazy, calls, timer, elapsed,
                   imported, css, decorated, hdr, ftr>>
    /\ UNCHANGED <<fetched, mainDecor, secCalls>>
    /\ UNCHANGED nonBoot

\* loadBlock(block), step 2: the css of the block is there, and
\* /blocks/{block-name}/{block-name}.js is requested.
cssLoaded ==
    /\ ld.state = "block"
    /\ LET b == MainBlock(ld.sec, ld.blk) IN
          /\ bstat[b] = "css"
          /\ fetched' = fetched \cup {<<b, "css">>}
          /\ bstat' = [bstat EXCEPT ![b] = "js"]
    /\ UNCHANGED <<hasMain, page, hpc, eager, lazy, calls, timer, elapsed,
                   imported, css, ld, decorated, hdr, ftr>>
    /\ UNCHANGED <<mainDecor, secCalls>>
    /\ UNCHANGED nonBoot

\* loadBlock(block), step 2, its end: the js of the block is there.
jsLoaded ==
    /\ ld.state = "block"
    /\ LET b == MainBlock(ld.sec, ld.blk) IN
          /\ bstat[b] = "js"
          /\ fetched' = fetched \cup {<<b, "js">>}
          /\ bstat' = [bstat EXCEPT ![b] = "ready"]
    /\ UNCHANGED <<hasMain, page, hpc, eager, lazy, calls, timer, elapsed,
                   imported, css, ld, decorated, hdr, ftr>>
    /\ UNCHANGED <<mainDecor, secCalls>>
    /\ UNCHANGED nonBoot

\* loadBlock goes on to step 3 once steps 1 and 2 are done.
ScriptReady_Early(b) == TRUE

ScriptReady(b) == bstat[b] = "ready"

\* loadBlock(block), step 3: the block's decorate function is called with the
\* block.
decorate ==
    /\ ld.state = "block"
    /\ LET b == MainBlock(ld.sec, ld.blk) IN
          /\ bstat[b] \in {"css", "js", "ready"}
          /\ ScriptReady(b)
          /\ decorated' = [decorated EXCEPT ![b] = @ + 1]
          /\ bstat' = [bstat EXCEPT ![b] = "decorating"]
    /\ UNCHANGED <<hasMain, page, hpc, eager, lazy, calls, timer, elapsed,
                   imported, css, ld, hdr, ftr>>
    /\ UNCHANGED <<fetched, mainDecor, secCalls>>
    /\ UNCHANGED nonBoot

\* loadBlock(block), steps 4 and 5: decorate has finished, the classes of the
\* block are set and the promise of loadBlock resolves.
decorateDone ==
    /\ ld.state = "block"
    /\ LET b == MainBlock(ld.sec, ld.blk) IN
          /\ bstat[b] = "decorating"
          /\ bstat' = [bstat EXCEPT ![b] = "loaded"]
    /\ ld' = [ld EXCEPT !.state = "next", !.blk = @ + 1]
    /\ UNCHANGED <<hasMain, page, hpc, eager, lazy, calls, timer, elapsed,
                   imported, css, decorated, hdr, ftr>>
    /\ UNCHANGED <<fetched, mainDecor, secCalls>>
    /\ UNCHANGED nonBoot

\* All blocks of the section are loaded: loadSection resolves; loadSections
\* goes on with the next section and resolves after the last one.
sectionLoaded ==
    /\ ld.state = "next"
    /\ ld.blk > NumBlocks(ld.sec)
    /\ IF ld.who = "loadSections" /\ ld.sec < Len(page)
       THEN /\ ld' = loadSection("loadSections", ld.sec + 1, FALSE)
            /\ secCalls' = Append(secCalls, SectionCall(ld', mainDecor))
       ELSE /\ ld' = [ld EXCEPT !.state = "resolved"]
            /\ UNCHANGED secCalls
    /\ UNCHANGED <<hasMain, page, hpc, eager, lazy, calls, timer, elapsed,
                   imported, css, bstat, decorated, hdr, ftr>>
    /\ UNCHANGED <<fetched, mainDecor>>
    /\ UNCHANGED nonBoot

\* The css and the js that loadBlock loads for block b.
BlockResources(b) == {<<b, "css">>, <<b, "js">>}

\* loadSections(element): all sections of the element, one after the other.
\* Without a section the loop has no turn; on a null element the outcome is
\* that of a dereference the reference does not document.
loadSections(outcome) ==
    IF ~hasMain THEN [NoLoad EXCEPT !.who = "loadSections", !.state = outcome]
    ELSE IF Len(page) = 0
         THEN [NoLoad EXCEPT !.who = "loadSections", !.state = "resolved"]
         ELSE loadSection("loadSections", 1, FALSE)

\* A pending load of a section rejects (a network or script error).
loadRejects ==
    /\ ld.state \in {"callback", "next", "block"}
    /\ ld' = [ld EXCEPT !.state = "rejected"]
    /\ UNCHANGED <<hasMain, page, hpc, eager, lazy, calls, timer, elapsed,
                   imported, css, bstat, decorated, hdr, ftr>>
    /\ UNCHANGED <<fetched, mainDecor, secCalls>>
    /\ UNCHANGED nonBoot

\* loadHeader(header) loads and decorates the header block, or rejects.
loadHeader ==
    /\ hdr = "loading"
    /\ \E ok \in BOOLEAN :
          IF ok
          THEN /\ hdr' = "loaded"
               /\ IF BlockNeedsLoad(HeaderBlock)
                  THEN /\ fetched' = fetched \cup BlockResources(HeaderBlock)
                       /\ decorated' = [decorated EXCEPT ![HeaderBlock] = @ + 1]
                       /\ bstat' = [bstat EXCEPT ![HeaderBlock] = "loaded"]
                  ELSE UNCHANGED <<fetched, decorated, bstat>>
          ELSE /\ hdr' = "failed"
               /\ UNCHANGED <<fetched, decorated, bstat>>
    /\ UNCHANGED <<hasMain, page, hpc, eager, lazy, calls, timer, elapsed,
                   imported, css, ld, ftr>>
    /\ UNCHANGED <<mainDecor, secCalls>>
    /\ UNCHANGED nonBoot

\* loadFooter(footer) loads and decorates the footer block, or rejects.
loadFooter ==
    /\ ftr = "loading"
    /\ \E ok \in BOOLEAN :
          IF ok
          THEN /\ ftr' = "loaded"
               /\ IF BlockNeedsLoad(FooterBlock)
                  THEN /\ fetched' = fetched \cup BlockResources(FooterBlock)
                       /\ decorated' = [decorated EXCEPT ![FooterBlock] = @ + 1]
                       /\ bstat' = [bstat EXCEPT ![FooterBlock] = "loaded"]
                  ELSE UNCHANGED <<fetched, decorated, bstat>>
          ELSE /\ ftr' = "failed"
               /\ UNCHANGED <<fetched, decorated, bstat>>
    /\ UNCHANGED <<hasMain, page, hpc, eager, lazy, calls, timer, elapsed,
                   imported, css, ld, hdr>>
    /\ UNCHANGED <<mainDecor, secCalls>>
    /\ UNCHANGED nonBoot

(***************************************************************************)
(* scripts/scripts.js: loadEager, loadLazy, loadDelayed and the            *)
(* DOMContentLoaded handler that runs them.                                *)
(***************************************************************************)

\* The load that loadEager awaits: loadSection on the first .section of main
\* (null, here 0, when main has none), with waitForFirstImage as callback.
EagerLoad_AllSections ==
    loadSection("loadSections", IF Len(page) > 0 THEN 1 ELSE 0, FALSE)

EagerLoad ==
    loadSection("loadSection", IF Len(page) > 0 THEN 1 ELSE 0, TRUE)

\* loadEager(doc) up to its await: decorateTemplateAndTheme; with a main,
\* decorateSections, decorateBlocks and
\* await loadSection(main.querySelector('.section'), waitForFirstImage).
\* Without a main the function returns at once.
loadEager ==
    /\ calls' = [calls EXCEPT !["loadEager"] = @ + 1]
    /\ IF hasMain
       THEN /\ mainDecor' = mainDecor \o <<"decorateSections", "decorateBlocks">>
            /\ eager' = "awaitSection"
            /\ ld' = EagerLoad
            /\ secCalls' = Append(secCalls, SectionCall(ld', mainDecor'))
       ELSE /\ eager' = "resolved"
            /\ UNCHANGED <<ld, mainDecor, secCalls>>

\* loadEager after its await: the promise of loadEager settles as that of
\* loadSection did.
loadEagerSettles ==
    /\ eager = "awaitSection"
    /\ ld.state \in {"resolved", "rejected"}
    /\ eager' = ld.state
    /\ ld' = NoLoad
    /\ UNCHANGED <<hasMain, page, hpc, lazy, calls, timer, elapsed, imported,
                   css, bstat, decorated, hdr, ftr>>
    /\ UNCHANGED <<fetched, mainDecor, secCalls>>
    /\ UNCHANGED nonBoot

\* loadLazy(doc) up to its first await: await loadSections(main).
loadLazy ==
    /\ calls' = [calls EXCEPT !["loadLazy"] = @ + 1]
    /\ lazy' = "awaitSections"
    /\ \E outcome \in {"resolved", "rejected"} : ld' = loadSections(outcome)
    /\ secCalls' = IF ld'.state = "next"
                   THEN Append(secCalls, SectionCall(ld', mainDecor))
                   ELSE secCalls

\* `await loadSections(main)` of loadLazy lets loadLazy go on once the promise
\* of loadSections has resolved.
SectionsAwaited_NoAwait == TRUE

SectionsAwaited == ld.state = "resolved"

\* loadLazy after loadSections: the scroll to the hash, then
\* await loadHeader(doc.querySelector('header')).
loadLazyAfterSections ==
    /\ lazy = "awaitSections"
    /\ SectionsAwaited
    /\ lazy' = "awaitHeader"
    /\ hdr' = "loading"
    /\ ld' = IF ld.state = "resolved" THEN NoLoad ELSE ld
    /\ UNCHANGED <<hasMain, page, hpc, eager, calls, timer, elapsed, imported,
                   css, bstat, decorated, ftr>>
    /\ UNCHANGED <<fetched, mainDecor, secCalls>>
    /\ UNCHANGED nonBoot

\* `await loadHeader(...)` of loadLazy lets loadLazy go on once the promise of
\* loadHeader has resolved.
HeaderAwaited == hdr = "loaded"

\* loadLazy after loadHeader: await loadFooter(doc.querySelector('footer')).
loadLazyAfterHeader ==
    /\ lazy = "awaitHeader"
    /\ HeaderAwaited
    /\ lazy' = "awaitFooter"
    /\ ftr' = "loading"
    /\ UNCHANGED <<hasMain, page, hpc, eager, calls, timer, elapsed, imported,
                   css, ld, bstat, decorated, hdr>>
    /\ UNCHANGED <<fetched, mainDecor, secCalls>>
    /\ UNCHANGED nonBoot

\* sampleRUM.observe(main.querySelectorAll(...)), the last statements of
\* loadLazy: main is dereferenced without a test, which throws a TypeError
\* when main is null; the promise of loadLazy settles accordingly.
ObserveMain_Guarded == "resolved"

ObserveMain == IF hasMain THEN "resolved" ELSE "rejected"

\* loadLazy after loadFooter: loadCSS(lazy-styles.css), not awaited, then
\* sampleRUM('lazy') and the two calls of sampleRUM.observe.
loadLazyAfterFooter ==
    /\ lazy = "awaitFooter"
    /\ ftr = "loaded"
    /\ css' = css \cup {"lazy-styles.css"}
    /\ lazy' = ObserveMain
    /\ UNCHANGED <<hasMain, page, hpc, eager, calls, timer, elapsed, imported,
                   ld, bstat, decorated, hdr, ftr>>
    /\ UNCHANGED <<fetched, mainDecor, secCalls>>
    /\ UNCHANGED nonBoot

\* An awaited promise of loadLazy rejects: loadLazy has no try, so its own
\* promise rejects.
loadLazyRejects ==
    /\ \/ lazy = "awaitSections" /\ ld.state = "rejected"
       \/ lazy = "awaitHeader" /\ hdr = "failed"
       \/ lazy = "awaitFooter" /\ ftr = "failed"
    /\ lazy' = "rejected"
    /\ ld' = IF lazy = "awaitSections" THEN NoLoad ELSE ld
    /\ UNCHANGED <<hasMain, page, hpc, eager, calls, timer, elapsed, imported,
                   css, bstat, decorated, hdr, ftr>>
    /\ UNCHANGED <<fetched, mainDecor, secCalls>>
    /\ UNCHANGED nonBoot

\* loadDelayed(): window.setTimeout(() => import('./delayed.js'), 3000), then
\* loadCSS(delayed.css), not awaited; the function returns at once.
loadDelayed ==
    /\ calls' = [calls EXCEPT !["loadDelayed"] = @ + 1]
    /\ timer' = "pending"
    /\ elapsed' = 0
    /\ css' = css \cup {"delayed.css"}

\* Time passes while the timer is pending.
Tick ==
    /\ timer = "pending"
    /\ elapsed < DelayedTimeoutMs
    /\ elapsed' = elapsed + TickMs
    /\ UNCHANGED <<hasMain, page, hpc, eager, lazy, calls, timer, imported,
                   css, ld, bstat, decorated, hdr, ftr>>
    /\ UNCHANGED <<fetched, mainDecor, secCalls>>
    /\ UNCHANGED nonBoot

\* The timer is due once its delay has elapsed.
TimerDue_Immediately == TRUE

TimerDue_Late == elapsed > DelayedTimeoutMs

TimerDue == elapsed >= DelayedTimeoutMs

\* The timer fires: its callback issues import('./delayed.js').
TimerFires ==
    /\ timer = "pending"
    /\ TimerDue
    /\ timer' = "fired"
    /\ imported' = TRUE
    /\ UNCHANGED <<hasMain, page, hpc, eager, lazy, calls, elapsed, css, ld,
                   bstat, decorated, hdr, ftr>>
    /\ UNCHANGED <<fetched, mainDecor, secCalls>>
    /\ UNCHANGED nonBoot

\* DOMContentLoaded fires: the handler starts with `await loadEager(document)`.
DOMContentLoaded ==
    /\ hpc = "idle"
    /\ hpc' = "awaitEager"
    /\ loadEager
    /\ UNCHANGED <<hasMain, page, lazy, timer, elapsed, imported, css, bstat,
                   decorated, hdr, ftr>>
    /\ UNCHANGED <<fetched>>
    /\ UNCHANGED nonBoot

\* `await loadEager(document)` lets the handler go on once the promise of
\* loadEager has resolved.
EagerAwaited_NoAwait == eager # "notStarted"

EagerAwaited == eager = "resolved"

\* The handler after loadEager: `await loadLazy(document)`.
HandlerAfterEager ==
    /\ hpc = "awaitEager"
    /\ EagerAwaited
    /\ hpc' = "awaitLazy"
    /\ loadLazy
    /\ UNCHANGED <<hasMain, page, eager, timer, elapsed, imported, css, bstat,
                   decorated, hdr, ftr>>
    /\ UNCHANGED <<fetched, mainDecor>>
    /\ UNCHANGED nonBoot

\* `await loadLazy(document)` lets the handler go on once the promise of
\* loadLazy has resolved.
LazyAwaited == lazy = "resolved"

\* The handler after loadLazy: loadDelayed(), not awaited; the handler ends.
HandlerAfterLazy ==
    /\ hpc = "awaitLazy"
    /\ LazyAwaited
    /\ hpc' = "done"
    /\ loadDelayed
    /\ UNCHANGED <<hasMain, page, eager, lazy, imported, ld, bstat, decorated,
                   hdr, ftr>>
    /\ UNCHANGED <<fetched, mainDecor, secCalls>>
    /\ UNCHANGED nonBoot

\* The handler has no try: a rejection of the awaited phase ends it, and the
\* exception goes to the browser.
HandlerRejected_Retry ==
    /\ \/ hpc = "awaitEager" /\ eager = "rejected"
       \/ hpc = "awaitLazy" /\ lazy = "rejected"
    /\ IF hpc = "awaitEager"
       THEN loadEager /\ UNCHANGED lazy
       ELSE loadLazy /\ UNCHANGED <<eager, mainDecor>>
    /\ UNCHANGED <<hasMain, page, hpc, timer, elapsed, imported, css, bstat,
                   decorated, hdr, ftr>>
    /\ UNCHANGED <<fetched>>
    /\ UNCHANGED nonBoot

HandlerRejected_Caught ==
    /\ \/ hpc = "awaitEager" /\ eager = "rejected"
       \/ hpc = "awaitLazy" /\ lazy = "rejected"
    /\ IF hpc = "awaitEager"
       THEN /\ hpc' = "awaitLazy"
            /\ loadLazy
            /\ UNCHANGED <<timer, elapsed, css>>
       ELSE /\ hpc' = "done"
            /\ loadDelayed
            /\ UNCHANGED <<lazy, ld, secCalls>>
    /\ UNCHANGED <<hasMain, page, eager, imported, bstat, decorated, hdr, ftr>>
    /\ UNCHANGED <<fetched, mainDecor>>
    /\ UNCHANGED nonBoot

HandlerRejected ==
    /\ \/ hpc = "awaitEager" /\ eager = "rejected"
       \/ hpc = "awaitLazy" /\ lazy = "rejected"
    /\ hpc' = "failed"
    /\ UNCHANGED <<hasMain, page, eager, lazy, calls, timer, elapsed, imported,
                   css, ld, bstat, decorated, hdr, ftr>>
    /\ UNCHANGED <<fetched, mainDecor, secCalls>>
    /\ UNCHANGED nonBoot

(***************************************************************************)
(* The specification of the page load: the block decorators are at rest.   *)
(***************************************************************************)
CardsOff ==
    /\ cardsPc = "off"
    /\ cardsOrig = <<>>
    /\ cardsBlock = <<>>

FaqOff ==
    /\ faqPc = "off"
    /\ faqItems = <<>>
    /\ faqClicks = 0
    /\ faqLast = 0

PostsOff ==
    /\ postsPc = "off"
    /\ postsNet = <<>>
    /\ postsHtml = <<>>
    /\ postsFetches = 0
    /\ postsErrors = 0
    /\ postsResult = "none"

HlxOff ==
    /\ hlx = <<>>
    /\ hlxVal = <<>>
    /\ hlxPc = <<>>
    /\ hlxSeen = <<>>

HeroOff ==
    /\ heroPc = "off"
    /\ heroOrig = <<>>
    /\ heroDoc = <<>>
    /\ heroWrites = 0

LocaleOff ==
    /\ locPc = "off"
    /\ locPath = <<>>
    /\ locKeys = <<>>
    /\ locMeta = <<>>
    /\ locLang = ""
    /\ locResult = <<>>

SheetOff ==
    /\ sheetLinks = <<>>
    /\ sheetLoaded = {}
    /\ sheetCalls = <<>>

DataOff ==
    /\ dataPc = "off"
    /\ dataNet = <<>>
    /\ dataHtml = "authored"
    /\ dataRenders = 0
    /\ dataErrors = 0
    /\ dataResult = "none"

Init ==
    /\ BootInit /\ CardsOff /\ FaqOff /\ PostsOff /\ HlxOff
    /\ HeroOff /\ LocaleOff /\ SheetOff /\ DataOff

Next ==
    \/ DOMContentLoaded
    \/ loadEagerSettles
    \/ HandlerAfterEager
    \/ loadLazyAfterSections
    \/ loadLazyAfterHeader
    \/ loadLazyAfterFooter
    \/ loadLazyRejects
    \/ HandlerAfterLazy
    \/ HandlerRejected
    \/ Tick
    \/ TimerFires
    \/ waitForFirstImage
    \/ loadBlock
    \/ cssLoaded
    \/ jsLoaded
    \/ decorate
    \/ decorateDone
    \/ sectionLoaded
    \/ loadRejects
    \/ loadHeader
    \/ loadFooter

Spec == Init /\ [][Next]_vars

\* The page load with progress: the event loop runs every continuation that
\* is ready, pending loads settle and a timer that is due fires, so the run
\* does not stop while a step is possible.
SpecLoad == Spec /\ WF_vars(Next)

(***************************************************************************)
(* blocks/cards/cards.js on a DOM of elements [tag, cls, kids]: cls is the  *)
(* set of class names of the element, kids its element children in order.  *)
(***************************************************************************)
El(tag, cls, kids) == [tag |-> tag, cls |-> cls, kids |-> kids]

Img == El("img", {}, <<>>)
Source == El("source", {}, <<>>)
Picture == El("picture", {}, <<Img>>)
Para == El("p", {}, <<>>)
ParaPicture == El("p", {}, <<Picture>>)

\* What an authored cell may hold: nothing, a picture, a paragraph, a picture
\* inside a paragraph, a picture and a paragraph, two paragraphs.
CellContents ==
    {<<>>, <<Picture>>, <<Para>>, <<ParaPicture>>, <<Picture, Para>>, <<Para, Para>>}

SeqsUpTo(S, n) == UNION {[1..k -> S] : k \in 0..n}

CardsCells == {El("div", {}, c) : c \in CellContents}
CardsRows == {El("div", {}, r) : r \in SeqsUpTo(CardsCells, MaxCells)}
CardsBlocks == {El("div", {"cards", "block"}, b) : b \in SeqsUpTo(CardsRows, MaxRows)}

\* element.querySelector('picture'): some descendant is a picture.
RECURSIVE HasPicture(_)
HasPicture(n) ==
    \E i \in 1..Len(n.kids) : n.kids[i].tag = "picture" \/ HasPicture(n.kids[i])

\* createOptimizedPicture(src, alt, false, [{ width: '750' }]): a picture with
\* one webp source for the one breakpoint, and the img.
createOptimizedPicture == El("picture", {}, <<Source, Img>>)

\* ul.querySelectorAll('picture > img').forEach((img) =>
\*   img.closest('picture').replaceWith(createOptimizedPicture(...)))
RECURSIVE OptimizePictures(_)
OptimizePictures(n) ==
    IF n.tag = "picture" /\ \E i \in 1..Len(n.kids) : n.kids[i].tag = "img"
    THEN createOptimizedPicture
    ELSE [n EXCEPT !.kids = [i \in 1..Len(n.kids) |-> OptimizePictures(n.kids[i])]]

\* The class a cell div gets: div.className = ... replaces its classes.
CardsClass_AnyPicture(div) ==
    IF HasPicture(div) THEN "cards-card-image" ELSE "cards-card-body"

CardsClass(div) ==
    IF Len(div.kids) = 1 /\ HasPicture(div)
    THEN "cards-card-image"
    ELSE "cards-card-body"

\* One row becomes one li: the row's element children are moved into it in
\* order, and each gets its class.
CardsLi(row) ==
    El("li", {},
       [j \in 1..Len(row.kids) |->
           [row.kids[j] EXCEPT !.cls = {CardsClass(row.kids[j])}]])

\* decorate(block) of cards.js; the function does not look whether the block
\* has been decorated before.
CardsDecorate_Guarded(block) ==
    IF Len(block.kids) = 1 /\ block.kids[1].tag = "ul"
    THEN block
    ELSE LET ul == El("ul", {}, [i \in 1..Len(block.kids) |-> CardsLi(block.kids[i])])
         IN  [block EXCEPT !.kids = <<OptimizePictures(ul)>>]

CardsDecorate(block) ==
    LET ul == El("ul", {}, [i \in 1..Len(block.kids) |-> CardsLi(block.kids[i])])
    IN  [block EXCEPT !.kids = <<OptimizePictures(ul)>>]

CardsInit ==
    /\ cardsPc = "fresh"
    /\ cardsOrig \in CardsBlocks
    /\ cardsBlock = cardsOrig

\* The loader calls decorate on the cards block.
CardsDecorateBlock ==
    /\ cardsPc = "fresh"
    /\ cardsBlock' = CardsDecorate(cardsBlock)
    /\ cardsPc' = "decorated"
    /\ UNCHANGED cardsOrig
    /\ UNCHANGED <<bootVars, faqVars, postsVars, hlxVars>>
    /\ UNCHANGED <<heroVars, localeVars, sheetVars, dataVars>>

\* decorate is applied a second time, to the block it has decorated.
CardsDecorateAgain ==
    /\ cardsPc = "decorated"
    /\ cardsBlock' = CardsDecorate(cardsBlock)
    /\ cardsPc' = "redecorated"
    /\ UNCHANGED cardsOrig
    /\ UNCHANGED <<bootVars, faqVars, postsVars, hlxVars>>
    /\ UNCHANGED <<heroVars, localeVars, sheetVars, dataVars>>

(***************************************************************************)
(* blocks/faq/faq.js.  An item is a row of the block: cells is the number  *)
(* of its element children (question, answer); button says the question    *)
(* has been replaced by the toggle button (which carries the click         *)
(* handler); expanded is the button's aria-expanded, icon the text of its  *)
(* .faq-icon ("+", or "minus" for the minus sign), hidden the hidden       *)
(* property of the answer.                                                 *)
(***************************************************************************)
FaqItem(n) ==
    [cells |-> n, button |-> FALSE, expanded |-> "none", icon |-> "none",
     hidden |-> FALSE]

\* Rows as authored: a question and an answer, or a question alone.
FaqRows == {FaqItem(1), FaqItem(2)}

\* One turn of items.forEach in decorate, for an item with both children.
FaqDecorateItem_Shown(item) ==
    [item EXCEPT !.button = TRUE, !.expanded = "false", !.icon = "+"]

FaqDecorateItem(item) ==
    [item EXCEPT !.button = TRUE, !.expanded = "false", !.icon = "+",
                 !.hidden = TRUE]

\* The index of the first item decorate cannot process: answer is undefined
\* and answer.classList throws.  Len + 1 when there is none.
FaqFirstBad(items) ==
    IF \E i \in 1..Len(items) : items[i].cells < 2
    THEN CHOOSE i \in 1..Len(items) :
            /\ items[i].cells < 2
            /\ \A k \in 1..(i - 1) : items[k].cells >= 2
    ELSE Len(items) + 1

\* decorate(block) of faq.js: the items before the first bad one are decorated.
FaqDecorate(items) ==
    [i \in 1..Len(items) |->
        IF i < FaqFirstBad(items) THEN FaqDecorateItem(items[i]) ELSE items[i]]

\* "Close all other items": every .faq-toggle of the block is collapsed.
FaqCloseAll_Skip(items) == items

FaqCloseAll(items) ==
    [i \in 1..Len(items) |->
        IF items[i].button
        THEN [items[i] EXCEPT !.expanded = "false", !.icon = "+", !.hidden = TRUE]
        ELSE items[i]]

\* The click handler of the button of item i.
FaqOnClick_OpenOnly(items, i) ==
    [FaqCloseAll(items) EXCEPT ![i].expanded = "true", ![i].icon = "minus",
                               ![i].hidden = FALSE]

FaqOnClick(items, i) ==
    LET isExpanded == items[i].expanded = "true"
        closed == FaqCloseAll(items)
    IN  IF ~isExpanded
        THEN [closed EXCEPT ![i].expanded = "true", ![i].icon = "minus",
                            ![i].hidden = FALSE]
        ELSE closed

FaqInit ==
    /\ faqPc = "fresh"
    /\ faqItems \in SeqsUpTo(FaqRows, MaxItems)
    /\ faqClicks = 0
    /\ faqLast = 0

\* The loader calls decorate on the faq block.
FaqDecorateBlock ==
    /\ faqPc = "fresh"
    /\ faqItems' = FaqDecorate(faqItems)
    /\ faqPc' = IF FaqFirstBad(faqItems) > Len(faqItems) THEN "decorated" ELSE "threw"
    /\ UNCHANGED <<faqClicks, faqLast>>
    /\ UNCHANGED <<bootVars, cardsVars, postsVars, hlxVars>>
    /\ UNCHANGED <<heroVars, localeVars, sheetVars, dataVars>>

\* The user clicks the toggle button of an item.
FaqClick ==
    /\ faqPc \in {"decorated", "threw"}
    /\ faqClicks < MaxClicks
    /\ \E i \in 1..Len(faqItems) :
          /\ faqItems[i].button
          /\ faqItems' = FaqOnClick(faqItems, i)
          /\ faqLast' = i
    /\ faqClicks' = faqClicks + 1
    /\ UNCHANGED faqPc
    /\ UNCHANGED <<bootVars, cardsVars, postsVars, hlxVars>>
    /\ UNCHANGED <<heroVars, localeVars, sheetVars, dataVars>>

(***************************************************************************)
(* blocks/latest-posts/latest-posts.js.  The content of the block is a     *)
(* record: kind "authored", "loading" (the placeholder), "empty" (after    *)
(* the placeholder is cleared), "list" (the ul, with the paths of its      *)
(* items) or "failed" (the static failure message).                        *)
(* The network's answer: fetch rejects or gives a response; the body does  *)
(* not parse or parses to data; data.data is missing or a list of entries, *)
(* each with a path under /blog/, another path, or no path at all.         *)
(***************************************************************************)
Html(kind, items) == [kind |-> kind, items |-> items]

PostPaths == {"blog", "other", "nopath"}

PostsAnswers ==
    {[fetch |-> "rejects", body |-> "none", data |-> "none", entries |-> <<>>],
     [fetch |-> "response", body |-> "unparsable", data |-> "none", entries |-> <<>>],
     [fetch |-> "response", body |-> "json", data |-> "missing", entries |-> <<>>]}
        \cup {[fetch |-> "response", body |-> "json", data |-> "list", entries |-> e] :
                 e \in SeqsUpTo(PostPaths, MaxPosts)}

\* The catch block: the failure message replaces the content, the error is
\* logged, and decorate returns normally.
PostsCatch_Rethrow ==
    /\ postsHtml' = Html("failed", <<>>)
    /\ postsErrors' = postsErrors + 1
    /\ postsResult' = "rejected"
    /\ postsPc' = "settled"

PostsCatch_LogOnly ==
    /\ postsHtml' = postsHtml
    /\ postsErrors' = postsErrors + 1
    /\ postsResult' = "resolved"
    /\ postsPc' = "settled"

PostsCatch ==
    /\ postsHtml' = Html("failed", <<>>)
    /\ postsErrors' = postsErrors + 1
    /\ postsResult' = "resolved"
    /\ postsPc' = "settled"

\* data.data.filter(item => item.path.startsWith('/blog/')).slice(0, 3)
RECURSIVE PostsFilter(_)
PostsFilter(entries) ==
    IF entries = <<>> THEN <<>>
    ELSE IF Head(entries) = "blog"
         THEN <<Head(entries)>> \o PostsFilter(Tail(entries))
         ELSE PostsFilter(Tail(entries))

PostsSlice(posts) == SubSeq(posts, 1, IF Len(posts) < LatestPostsCount
                                     THEN Len(posts) ELSE LatestPostsCount)

PostsInit ==
    /\ postsPc = "idle"
    /\ postsNet \in PostsAnswers
    /\ postsHtml = Html("authored", <<>>)
    /\ postsFetches = 0
    /\ postsErrors = 0
    /\ postsResult = "none"

\* decorate(block) up to `await fetch('/query-index.json')`.
PostsDecorate ==
    /\ postsPc = "idle"
    /\ postsHtml' = Html("loading", <<>>)
    /\ postsFetches' = postsFetches + 1
    /\ postsResult' = "pending"
    /\ postsPc' = "fetching"
    /\ UNCHANGED <<postsNet, postsErrors>>
    /\ UNCHANGED <<bootVars, cardsVars, faqVars, hlxVars>>
    /\ UNCHANGED <<heroVars, localeVars, sheetVars, dataVars>>

\* fetch settles: on a response decorate goes on to `await response.json()`.
PostsFetchSettles ==
    /\ postsPc = "fetching"
    /\ IF postsNet.fetch = "rejects"
       THEN PostsCatch
       ELSE /\ postsPc' = "parsing"
            /\ UNCHANGED <<postsHtml, postsErrors, postsResult>>
    /\ UNCHANGED <<postsNet, postsFetches>>
    /\ UNCHANGED <<bootVars, cardsVars, faqVars, hlxVars>>
    /\ UNCHANGED <<heroVars, localeVars, sheetVars, dataVars>>

\* response.json() settles: the try block runs on to `block.innerHTML = ''`.
\* data.data.filter throws when data.data is missing, item.path.startsWith
\* when an entry has no path; otherwise the placeholder is cleared.
PostsJsonSettles ==
    /\ postsPc = "parsing"
    /\ IF \/ postsNet.body = "unparsable"
          \/ postsNet.data = "missing"
          \/ \E i \in 1..Len(postsNet.entries) : postsNet.entries[i] = "nopath"
       THEN PostsCatch
       ELSE /\ postsHtml' = Html("empty", <<>>)
            /\ postsPc' = "rendering"
            /\ UNCHANGED <<postsErrors, postsResult>>
    /\ UNCHANGED <<postsNet, postsFetches>>
    /\ UNCHANGED <<bootVars, cardsVars, faqVars, hlxVars>>
    /\ UNCHANGED <<heroVars, localeVars, sheetVars, dataVars>>

\* The rest of the try block: the ul is built from the posts and appended.
\* The statements are inside the try, so an exception raised by one of them
\* (outcome "throws") ends in the catch block as well.
PostsRender ==
    /\ postsPc = "rendering"
    /\ \E outcome \in {"returns", "throws"} :
          IF outcome = "throws"
          THEN PostsCatch
          ELSE /\ postsHtml' = Html("list", PostsSlice(PostsFilter(postsNet.entries)))
               /\ postsResult' = "resolved"
               /\ postsPc' = "settled"
               /\ UNCHANGED postsErrors
    /\ UNCHANGED <<postsNet, postsFetches>>
    /\ UNCHANGED <<bootVars, cardsVars, faqVars, hlxVars>>
    /\ UNCHANGED <<heroVars, localeVars, sheetVars, dataVars>>

(***************************************************************************)
(* window.hlx as shared state: decorator d stores its value under its own  *)
(* key (window.hlx.myFeature = ...), and later reads the key of its        *)
(* neighbour (window.hlx.myFeature?.enabled).  The framework's own key,    *)
(* codeBasePath, is key 0.                                                 *)
(***************************************************************************)
Absent == "absent"

Decorators == 1..NumDecorators

HlxKeys == 0..NumDecorators

HlxValues == {"on", "off"}

Neighbour(d) == (d % NumDecorators) + 1

\* window.hlx[key] = value
HlxSet_Replace(obj, key, value) ==
    [k \in DOMAIN obj |-> IF k = key THEN value ELSE Absent]

HlxSet(obj, key, value) == [obj EXCEPT ![key] = value]

HlxInit ==
    /\ hlx = [k \in HlxKeys |-> IF k = 0 THEN "codeBasePath" ELSE Absent]
    /\ hlxVal \in [Decorators -> HlxValues]
    /\ hlxPc = [d \in Decorators |-> "todo"]
    /\ hlxSeen = [d \in Decorators |-> Absent]

\* Decorator d sets its state.
HlxWrite ==
    \E d \in Decorators :
        /\ hlxPc[d] = "todo"
        /\ hlx' = HlxSet(hlx, d, hlxVal[d])
        /\ hlxPc' = [hlxPc EXCEPT ![d] = "wrote"]
        /\ UNCHANGED <<hlxVal, hlxSeen>>
        /\ UNCHANGED <<bootVars, cardsVars, faqVars, postsVars>>
        /\ UNCHANGED <<heroVars, localeVars, sheetVars, dataVars>>

\* Decorator d reads the state another decorator sets.
HlxRead ==
    \E d \in Decorators :
        /\ hlxPc[d] = "wrote"
        /\ hlxSeen' = [hlxSeen EXCEPT ![d] = hlx[Neighbour(d)]]
        /\ hlxPc' = [hlxPc EXCEPT ![d] = "done"]
        /\ UNCHANGED <<hlx, hlxVal>>
        /\ UNCHANGED <<bootVars, cardsVars, faqVars, postsVars>>
        /\ UNCHANGED <<heroVars, localeVars, sheetVars, dataVars>>

(***************************************************************************)
(* blocks/hero/hero.js.  The document holds its .hero blocks in document   *)
(* order; a hero block is the sequence of its h1 descendants in document   *)
(* order, and an h1 is its innerHTML: a sequence of tokens, each a         *)
(* character of text or a piece of markup (a start tag, an end tag, an img *)
(* tag up to the opening quote of its alt value, the closing quote and the *)
(* end of that tag).                                                       *)
(***************************************************************************)
ImgAlt == "<img alt=\""
AttrEnd == "\">"
SpanOpen == "<span class=\"dx\">"
SpanClose == "</span>"

StartTags == {"<picture>", "<em>", SpanOpen}
EndTags == {"</picture>", "</em>", SpanClose}
TextChars == {"F", "e", "D", "X", "d", "x", " ", "\n", "\r", "\t"}

FeDX == <<"F", "e", "D", "X">>

\* The h1 contents of the model: empty; FeDX; FeDX behind white space and
\* with a second DX; lower case; a tab inside the word; a picture whose alt
\* value holds DX, before FeDX; DX only inside a child element; a leading X;
\* a child element between FeD and X.
H1Contents ==
    { <<>>,
      FeDX,
      <<"\n", " ">> \o FeDX \o <<" ", "D", "X", "\r">>,
      <<"F", "e", "d", "x">>,
      <<"F", "e", "D", "\t", "X">>,
      <<"<picture>", ImgAlt, "D", "X", AttrEnd, "</picture>">> \o FeDX,
      <<"F", "e", "<em>", "D", "X", "</em>">>,
      <<"X">> \o FeDX,
      <<"F", "e", "D", "<em>", "D", "X", "</em>", "X">> }

\* A hero block has no h1, one h1, or one h1 and a second one that reads FeDX.
HeroBlocks ==
    {<<>>} \cup {<<c>> : c \in H1Contents} \cup {<<c, FeDX>> : c \in H1Contents}

HeroDocs == SeqsUpTo(HeroBlocks, MaxHeroes)

\* The text of the child nodes of the h1 that are text nodes, concatenated:
\* the characters of the innerHTML outside every child element and outside
\* every tag.
RECURSIVE TextOnlyFrom(_, _, _)
TextOnlyFrom(html, depth, inTag) ==
    IF html = <<>> THEN <<>>
    ELSE LET t == Head(html)
             rest == Tail(html)
         IN  IF inTag THEN TextOnlyFrom(rest, depth, t # AttrEnd)
             ELSE IF t = ImgAlt THEN TextOnlyFrom(rest, depth, TRUE)
             ELSE IF t \in StartTags THEN TextOnlyFrom(rest, depth + 1, FALSE)
             ELSE IF t \in EndTags
                  THEN TextOnlyFrom(rest, IF depth > 0 THEN depth - 1 ELSE 0, FALSE)
             ELSE IF depth = 0 THEN <<t>> \o TextOnlyFrom(rest, depth, FALSE)
             ELSE TextOnlyFrom(rest, depth, FALSE)

\* h1Element.textContent: the text of all descendants.
TextOnly_TextContent(h1) == SelectSeq(h1, LAMBDA t : t \in TextChars)

TextOnly(h1) == TextOnlyFrom(h1, 0, FALSE)

\* String.prototype.trim.
WhiteSpace == {" ", "\n", "\r", "\t"}

RECURSIVE TrimStart(_)
TrimStart(s) ==
    IF s # <<>> /\ Head(s) \in WhiteSpace THEN TrimStart(Tail(s)) ELSE s

RECURSIVE TrimEnd(_)
TrimEnd(s) ==
    IF s # <<>> /\ s[Len(s)] \in WhiteSpace
    THEN TrimEnd(SubSeq(s, 1, Len(s) - 1))
    ELSE s

Trim(s) == TrimEnd(TrimStart(s))

\* textOnly.replace(/[\n\r\t]/g, '').trim()
CleanText(textOnly) ==
    Trim(SelectSeq(textOnly, LAMBDA c : c \notin {"\n", "\r", "\t"}))

\* String.prototype.startsWith.
StartsWith(s, prefix) ==
    /\ Len(s) >= Len(prefix)
    /\ SubSeq(s, 1, Len(prefix)) = prefix

\* innerHTML.replace(/DX/g, '<span class="dx">DX</span>'): every occurrence,
\* from left to right.
RECURSIVE ReplaceDX_First(_)
ReplaceDX_First(html) ==
    IF Len(html) < 2 THEN html
    ELSE IF html[1] = "D" /\ html[2] = "X"
         THEN <<SpanOpen, "D", "X", SpanClose>> \o Tail(Tail(html))
         ELSE <<Head(html)>> \o ReplaceDX_First(Tail(html))

\* A replacement that leaves alone a DX that stands in a span.dx already.
RECURSIVE ReplaceDX_Unwrapped(_)
ReplaceDX_Unwrapped(html) ==
    IF Len(html) < 2 THEN html
    ELSE IF html[1] = SpanOpen /\ html[2] = "D"
         THEN <<SpanOpen, "D">> \o ReplaceDX_Unwrapped(Tail(Tail(html)))
    ELSE IF html[1] = "D" /\ html[2] = "X"
         THEN <<SpanOpen, "D", "X", SpanClose>> \o ReplaceDX_Unwrapped(Tail(Tail(html)))
         ELSE <<Head(html)>> \o ReplaceDX_Unwrapped(Tail(html))

RECURSIVE ReplaceDX(_)
ReplaceDX(html) ==
    IF Len(html) < 2 THEN html
    ELSE IF html[1] = "D" /\ html[2] = "X"
         THEN <<SpanOpen, "D", "X", SpanClose>> \o ReplaceDX(Tail(Tail(html)))
         ELSE <<Head(html)>> \o ReplaceDX(Tail(html))

\* The body of hero.js on the hero blocks of the document: the blocks after
\* the run, and the number of assignments to innerHTML.
\* heroBlock is document.querySelector('.hero'), h1Element is
\* heroBlock?.querySelector('h1').
HeroScript_EveryH1(doc) ==
    LET Rewritten(h1) == StartsWith(CleanText(TextOnly(h1)), FeDX)
    IN  [doc |-> [b \in 1..Len(doc) |->
                    [j \in 1..Len(doc[b]) |->
                        IF Rewritten(doc[b][j]) THEN ReplaceDX(doc[b][j])
                        ELSE doc[b][j]]],
         writes |-> Cardinality({<<b, j>> \in (1..Len(doc)) \X (1..2) :
                                    j <= Len(doc[b]) /\ Rewritten(doc[b][j])})]

HeroScript(doc) ==
    IF doc = <<>> \/ doc[1] = <<>>
    THEN [doc |-> doc, writes |-> 0]
    ELSE LET h1Element == doc[1][1]
             cleanText == CleanText(TextOnly(h1Element))
         IN  IF StartsWith(cleanText, FeDX)
             THEN [doc |-> [doc EXCEPT ![1][1] = ReplaceDX(h1Element)],
                   writes |-> 1]
             ELSE [doc |-> doc, writes |-> 0]

HeroInit ==
    /\ heroPc = "parsed"
    /\ heroOrig \in HeroDocs
    /\ heroDoc = heroOrig
    /\ heroWrites = 0

\* The module is evaluated: its body runs, once, whatever imports it.
HeroRun ==
    /\ heroPc = "parsed"
    /\ heroDoc' = HeroScript(heroDoc).doc
    /\ heroWrites' = heroWrites + HeroScript(heroDoc).writes
    /\ heroPc' = "ran"
    /\ UNCHANGED heroOrig
    /\ UNCHANGED <<bootVars, cardsVars, faqVars, postsVars, hlxVars>>
    /\ UNCHANGED <<localeVars, sheetVars, dataVars>>

\* The body of hero.js is run a second time, on the document its first run
\* has left: childNodes and innerHTML are those of the rewritten h1.
HeroRunAgain ==
    /\ heroPc = "ran"
    /\ heroDoc' = HeroScript(heroDoc).doc
    /\ heroWrites' = heroWrites + HeroScript(heroDoc).writes
    /\ heroPc' = "reran"
    /\ UNCHANGED heroOrig
    /\ UNCHANGED <<bootVars, cardsVars, faqVars, postsVars, hlxVars>>
    /\ UNCHANGED <<localeVars, sheetVars, dataVars>>

(***************************************************************************)
(* getLocale(localesConfig) of scripts/scripts.js.  A string is the        *)
(* sequence of its characters; localesConfig is given by its keys in their *)
(* enumeration order (Object.keys) and the entry of each key.              *)
(***************************************************************************)
PathChars == {"/", "d", "e"}

\* window.location.pathname starts with a slash.
Pathnames == {p \in SeqsUpTo(PathChars, MaxPathLen) : p # <<>> /\ p[1] = "/"}

\* The keys a configuration may have: '', '/d', '/de', '/d/e'.
LocaleKeys == {<<>>, <<"/", "d">>, <<"/", "d", "e">>, <<"/", "d", "/", "e">>}

\* The entry of a key: '' is the default locale; the entry of '/d/e' has a
\* label and no lang.
LocaleEntry(k) ==
    IF k = <<>> THEN [lang |-> "en", label |-> "English"]
    ELSE IF k = <<"/", "d">> THEN [lang |-> "d", label |-> "D"]
    ELSE IF k = <<"/", "d", "e">> THEN [lang |-> "de", label |-> "Deutsch"]
    ELSE [label |-> "DE"]

\* The configurations: some of the keys, in some order.
KeyOrders ==
    {o \in SeqsUpTo(LocaleKeys, Cardinality(LocaleKeys)) :
        \A i, j \in 1..Len(o) : i # j => o[i] # o[j]}

\* The values of the 'locale' metadata: none, '/de', '/fr'.
LocaleMetas == {<<>>, <<"/", "d", "e">>, <<"/", "f", "r">>}

Range(s) == {s[i] : i \in 1..Len(s)}

\* Object.keys(localesConfig).filter((locale) =>
\*     pathname === locale || pathname.startsWith(`${locale}/`))
LocaleMatches(keys, pathname) ==
    SelectSeq(keys, LAMBDA locale :
        pathname = locale \/ StartsWith(pathname, locale \o <<"/">>))

\* matches.toSorted((a, b) => b.length - a.length): a stable sort, the longer
\* key first.
RECURSIVE ToSorted_Ascending(_)
ToSorted_Ascending(matches) ==
    IF matches = <<>> THEN <<>>
    ELSE LET last == matches[Len(matches)]
             front == ToSorted_Ascending(SubSeq(matches, 1, Len(matches) - 1))
             before == SelectSeq(front, LAMBDA a : Len(a) <= Len(last))
             after == SelectSeq(front, LAMBDA a : Len(a) > Len(last))
         IN  before \o <<last>> \o after

ToSorted_Unsorted(matches) == matches

RECURSIVE ToSorted(_)
ToSorted(matches) ==
    IF matches = <<>> THEN <<>>
    ELSE LET last == matches[Len(matches)]
             front == ToSorted(SubSeq(matches, 1, Len(matches) - 1))
             before == SelectSeq(front, LAMBDA a : Len(a) >= Len(last))
             after == SelectSeq(front, LAMBDA a : Len(a) < Len(last))
         IN  before \o <<last>> \o after

\* getMetadata('locale') || sorted[0] || '': the empty string is falsy.
LocalePrefix_PathFirst(meta, sorted) ==
    IF sorted # <<>> /\ sorted[1] # <<>> THEN sorted[1]
    ELSE IF meta # <<>> THEN meta
    ELSE <<>>

LocalePrefix(meta, sorted) ==
    IF meta # <<>> THEN meta
    ELSE IF sorted # <<>> /\ sorted[1] # <<>> THEN sorted[1]
    ELSE <<>>

\* localesConfig[prefix]?.lang is there (and not empty).
HasLang(keys, prefix) ==
    /\ prefix \in Range(keys)
    /\ "lang" \in DOMAIN LocaleEntry(prefix)
    /\ LocaleEntry(prefix).lang # ""

\* getLocale(localesConfig): what it returns and the lang of the document
\* after it.
getLocale(keys, pathname, meta, lang) ==
    LET sorted == ToSorted(LocaleMatches(keys, pathname))
        prefix == LocalePrefix(meta, sorted)
    IN  [lang |-> IF HasLang(keys, prefix) THEN LocaleEntry(prefix).lang ELSE lang,
         result |-> IF prefix \in Range(keys)
                    THEN LocaleEntry(prefix) @@ [prefix |-> prefix]
                    ELSE [prefix |-> prefix]]

LocaleInit ==
    /\ locPc = "idle"
    /\ locPath \in Pathnames
    /\ locKeys \in KeyOrders
    /\ locMeta \in LocaleMetas
    /\ locLang = ""
    /\ locResult = <<>>

\* scripts.js calls getLocale(locales).
GetLocaleCall ==
    /\ locPc = "idle"
    /\ locLang' = getLocale(locKeys, locPath, locMeta, locLang).lang
    /\ locResult' = getLocale(locKeys, locPath, locMeta, locLang).result
    /\ locPc' = "returned"
    /\ UNCHANGED <<locPath, locKeys, locMeta>>
    /\ UNCHANGED <<bootVars, cardsVars, faqVars, postsVars, hlxVars>>
    /\ UNCHANGED <<heroVars, sheetVars, dataVars>>

(***************************************************************************)
(* loadCSS(href) of scripts/aem.js, from the features the utilities        *)
(* reference lists: it avoids duplicate loads, returns immediately if the  *)
(* css is already loaded, and resolves when the css is loaded.             *)
(***************************************************************************)
Hrefs == {"/styles/lazy-styles.css", "/styles/delayed.css"}

\* A link is put into the head only when the head holds none for the href.
LinkNeeded_Always(href) == TRUE

LinkNeeded(href) == sheetLinks[href] = 0

SheetInit ==
    /\ sheetLinks = [h \in Hrefs |-> 0]
    /\ sheetLoaded = {}
    /\ sheetCalls = <<>>

\* loadCSS(href) is called: a first call for the href puts its stylesheet
\* link into the head; a call for a loaded href resolves at once; every other
\* call waits for the css.
loadCSS ==
    \E href \in Hrefs :
        /\ Len(sheetCalls) < MaxCssCalls
        /\ sheetLinks' = IF LinkNeeded(href)
                         THEN [sheetLinks EXCEPT ![href] = @ + 1]
                         ELSE sheetLinks
        /\ sheetCalls' = Append(sheetCalls,
                            [href |-> href,
                             state |-> IF href \in sheetLoaded
                                       THEN "resolved" ELSE "pending"])
        /\ UNCHANGED sheetLoaded
        /\ UNCHANGED <<bootVars, cardsVars, faqVars, postsVars, hlxVars>>
        /\ UNCHANGED <<heroVars, localeVars, dataVars>>

\* The css of an href is loaded: the calls that wait for it resolve.
cssOnload ==
    \E href \in Hrefs :
        /\ sheetLinks[href] > 0
        /\ href \notin sheetLoaded
        /\ sheetLoaded' = sheetLoaded \cup {href}
        /\ sheetCalls' = [i \in 1..Len(sheetCalls) |->
                             IF sheetCalls[i].href = href
                             THEN [sheetCalls[i] EXCEPT !.state = "resolved"]
                             ELSE sheetCalls[i]]
        /\ UNCHANGED sheetLinks
        /\ UNCHANGED <<bootVars, cardsVars, faqVars, postsVars, hlxVars>>
        /\ UNCHANGED <<heroVars, localeVars, dataVars>>

(***************************************************************************)
(* The error-handling pattern for a block that loads data: fetch, the test *)
(* of response.ok, response.json() and render in one try, the static       *)
(* message in the catch.  The input of a run: fetch rejects or answers     *)
(* with a status; the body parses or not; render returns or throws.        *)
(***************************************************************************)
HttpStatuses == {200, 201, 204, 299, 300, 304, 404, 500}

DataAnswers ==
    {[fetch |-> "rejects", status |-> 0, body |-> "none", render |-> "none"]}
        \cup {[fetch |-> "response", status |-> st, body |-> b, render |-> r] :
                 st \in HttpStatuses, b \in {"json", "unparsable"},
                 r \in {"returns", "throws"}}

\* response.ok: the status is in the range 200-299.
ResponseOk_Ignored(status) == TRUE

ResponseOk(status) == status >= 200 /\ status <= 299

\* The catch block: the error is logged and the static message replaces the
\* content; decorate returns normally.
DataCatch ==
    /\ dataErrors' = dataErrors + 1
    /\ dataHtml' = "unavailable"
    /\ dataResult' = "resolved"
    /\ dataPc' = "settled"

DataInit ==
    /\ dataPc = "idle"
    /\ dataNet \in DataAnswers
    /\ dataHtml = "authored"
    /\ dataRenders = 0
    /\ dataErrors = 0
    /\ dataResult = "none"

\* decorate(block) up to `await fetch('/data.json')`.
DataDecorate ==
    /\ dataPc = "idle"
    /\ dataPc' = "fetching"
    /\ dataResult' = "pending"
    /\ UNCHANGED <<dataNet, dataHtml, dataRenders, dataErrors>>
    /\ UNCHANGED <<bootVars, cardsVars, faqVars, postsVars, hlxVars>>
    /\ UNCHANGED <<heroVars, localeVars, sheetVars>>

\* fetch settles: a rejection and a response that is not ok both end in the
\* catch block; otherwise decorate goes on to `await response.json()`.
DataFetchSettles ==
    /\ dataPc = "fetching"
    /\ IF dataNet.fetch = "rejects" \/ ~ResponseOk(dataNet.status)
       THEN DataCatch /\ UNCHANGED dataRenders
       ELSE /\ dataPc' = "parsing"
            /\ UNCHANGED <<dataHtml, dataRenders, dataErrors, dataResult>>
    /\ UNCHANGED dataNet
    /\ UNCHANGED <<bootVars, cardsVars, faqVars, postsVars, hlxVars>>
    /\ UNCHANGED <<heroVars, localeVars, sheetVars>>

\* response.json() settles: render(block, data) is called with the data, or
\* the parse error is caught; an exception of render is caught as well.
DataJsonSettles ==
    /\ dataPc = "parsing"
    /\ IF dataNet.body = "unparsable"
       THEN DataCatch /\ UNCHANGED dataRenders
       ELSE /\ dataRenders' = dataRenders + 1
            /\ IF dataNet.render = "throws"
               THEN DataCatch
               ELSE /\ dataHtml' = "rendered"
                    /\ dataResult' = "resolved"
                    /\ dataPc' = "settled"
                    /\ UNCHANGED dataErrors
    /\ UNCHANGED dataNet
    /\ UNCHANGED <<bootVars, cardsVars, faqVars, postsVars, hlxVars>>
    /\ UNCHANGED <<heroVars, localeVars, sheetVars>>

(***************************************************************************)
(* Properties of the bootstrap sequencer, checked under Spec.              *)
(***************************************************************************)

\* C1: the handler runs the phases in the order eager, lazy, delayed: loadLazy
\* is started only when the promise of loadEager has resolved, and loadDelayed
\* is called only when the promise of loadLazy has resolved.
C1_PhasesInOrder ==
    /\ (calls["loadLazy"] > 0 \/ lazy # "notStarted") => eager = "resolved"
    /\ (calls["loadDelayed"] > 0 \/ timer # "unset")
          => (eager = "resolved" /\ lazy = "resolved")
    /\ hpc = "awaitLazy" => calls["loadDelayed"] = 0

C1_Witness ==
    /\ calls["loadDelayed"] = 1
    /\ Len(page) > 0
    /\ page[1] > 0

C3_PhasesOnce ==
    /\ \A p \in Phases : calls[p] <= 1
    /\ hpc = "done" => \A p \in Phases : calls[p] = 1
    /\ (hpc = "failed" /\ eager = "rejected")
          => (calls["loadEager"] = 1 /\ calls["loadLazy"] = 0)

C3_Witness ==
    /\ hpc = "done"
    /\ \A p \in Phases : calls[p] = 1

\* C4: no error boundary: when loadEager has rejected, loadLazy and loadDelayed
\* are never started; when loadLazy has rejected, loadDelayed is never
\* started; the handler ends with the exception, and nothing is retried.
C4_NoErrorBoundary ==
    /\ eager = "rejected"
          => /\ calls["loadLazy"] = 0
             /\ calls["loadDelayed"] = 0
             /\ lazy = "notStarted"
             /\ timer = "unset"
             /\ hpc \in {"awaitEager", "failed"}
    /\ lazy = "rejected"
          => /\ calls["loadDelayed"] = 0
             /\ timer = "unset"
             /\ ~imported
             /\ hpc \in {"awaitLazy", "failed"}
    /\ hpc = "failed" => (eager = "rejected" \/ lazy = "rejected")
    /\ (eager = "rejected" \/ lazy = "rejected") => calls["loadEager"] = 1

C4_Witness ==
    /\ hpc = "failed"
    /\ lazy = "rejected"
    /\ eager = "resolved"

C11_HeaderInEager ==
    (eager = "resolved" \/ lazy # "notStarted")
        => (hdr = "loaded" /\ bstat[HeaderBlock] = "loaded")

C17_LoadBlockInOrder ==
    /\ [](\A b \in AllBlocks :
            /\ <<b, "js">> \in fetched => <<b, "css">> \in fetched
            /\ decorated[b] > 0 => BlockResources(b) \subseteq fetched
            /\ bstat[b] \in {"decorating", "loaded"} => decorated[b] > 0
            /\ bstat[b] \in {"none", "css", "js", "ready"} => decorated[b] = 0)
    /\ [][(/\ ld.state = "block"
           /\ ld'.state = "next"
           /\ ld'.sec = ld.sec
           /\ ld'.blk = ld.blk + 1)
             => (/\ bstat'[MainBlock(ld.sec, ld.blk)] = "loaded"
                 /\ decorated'[MainBlock(ld.sec, ld.blk)] = 1)]_vars

C17_Witness ==
    /\ ld.state = "next"
    /\ ld.sec = 1
    /\ ld.blk = 2
    /\ bstat[MainBlock(1, 1)] = "loaded"
    /\ decorated[MainBlock(1, 1)] = 1
    /\ BlockResources(MainBlock(1, 1)) \subseteq fetched

\* C28: on a document without main, loadEager completes without decorating
\* or loading a section; loadLazy never resolves, and when it has run to its
\* end (header and footer loaded) it has rejected; loadDelayed is not called,
\* no timer is set and delayed.js is not imported.
C28_NoMainLazyRejects ==
    ~hasMain =>
        /\ eager \in {"notStarted", "resolved"}
        /\ calls["loadEager"] > 0 => eager = "resolved"
        /\ mainDecor = <<>>
        /\ secCalls = <<>>
        /\ fetched \subseteq BlockResources(HeaderBlock) \cup BlockResources(FooterBlock)
        /\ lazy \in {"notStarted", "awaitSections", "awaitHeader", "awaitFooter",
                     "rejected"}
        /\ hpc \in {"done", "failed"} => (lazy = "rejected" /\ hpc = "failed")
        /\ calls["loadDelayed"] = 0
        /\ timer = "unset"
        /\ ~imported
        /\ "delayed.css" \notin css

C28_Witness ==
    /\ ~hasMain
    /\ eager = "resolved"
    /\ hdr = "loaded"
    /\ ftr = "loaded"
    /\ "lazy-styles.css" \in css
    /\ lazy = "rejected"
    /\ hpc = "failed"
    /\ calls["loadDelayed"] = 0

\* No awaited load has rejected: the loads of sections and blocks, of the
\* header and of the footer.
NoLoadRejected == ld.state # "rejected" /\ hdr # "failed" /\ ftr # "failed"

\* loadEager and loadLazy have completed, loadDelayed has been called and
\* delayed.js has been imported.
PageLoaded ==
    /\ eager = "resolved"
    /\ lazy = "resolved"
    /\ calls["loadDelayed"] = 1
    /\ imported

BootOff ==
    /\ hasMain = FALSE
    /\ page = <<>>
    /\ hpc = "idle"
    /\ eager = "notStarted"
    /\ lazy = "notStarted"
    /\ calls = [p \in Phases |-> 0]
    /\ timer = "unset"
    /\ elapsed = 0
    /\ imported = FALSE
    /\ css = {}
    /\ ld = NoLoad
    /\ bstat = [b \in AllBlocks |-> "none"]
    /\ fetched = {}
    /\ mainDecor = <<>>
    /\ secCalls = <<>>
    /\ decorated = [b \in AllBlocks |-> 0]
    /\ hdr = "none"
    /\ ftr = "none"

InitCards ==
    /\ BootOff /\ CardsInit /\ FaqOff /\ PostsOff /\ HlxOff
    /\ HeroOff /\ LocaleOff /\ SheetOff /\ DataOff

NextCards ==
    \/ CardsDecorateBlock
    \/ CardsDecorateAgain

SpecCards == InitCards /\ [][NextCards]_vars

\* C8: for a cards block of N rows decorate leaves the block with one child,
\* a ul of N li in the order of the rows; li i holds the cells of row i, and
\* every cell has exactly one class: cards-card-image when it has exactly one
\* child and contains a picture, cards-card-body otherwise.
C8_CardsList ==
    cardsPc = "decorated" =>
        /\ Len(cardsBlock.kids) = 1
        /\ LET ul == cardsBlock.kids[1] IN
              /\ ul.tag = "ul"
              /\ Len(ul.kids) = Len(cardsOrig.kids)
              /\ \A i \in 1..Len(ul.kids) :
                    LET li == ul.kids[i]
                        row == cardsOrig.kids[i]
                    IN  /\ li.tag = "li"
                        /\ Len(li.kids) = Len(row.kids)
                        /\ \A j \in 1..Len(li.kids) :
                              LET div == li.kids[j] IN
                                 /\ div.tag = "div"
                                 /\ [k \in 1..Len(div.kids) |-> div.kids[k].tag]
                                       = [k \in 1..Len(row.kids[j].kids)
                                             |-> row.kids[j].kids[k].tag]
                                 /\ div.cls =
                                       IF Len(div.kids) = 1 /\ HasPicture(div)
                                       THEN {"cards-card-image"}
                                       ELSE {"cards-card-body"}

C8_Witness ==
    /\ cardsPc = "decorated"
    /\ Len(cardsOrig.kids) = 2
    /\ Len(cardsBlock.kids[1].kids) = 2
    /\ Len(cardsBlock.kids[1].kids[1].kids) = 1
    /\ Len(cardsBlock.kids[1].kids[2].kids) = 1
    /\ cardsBlock.kids[1].kids[1].kids[1].cls = {"cards-card-image"}
    /\ cardsBlock.kids[1].kids[2].kids[1].cls = {"cards-card-body"}
    /\ Len(cardsBlock.kids[1].kids[2].kids[1].kids) = 2
    /\ HasPicture(cardsBlock.kids[1].kids[2].kids[1])

\* C18: the cards decorator is not idempotent: for every cards block of
\* N >= 2 rows, decorate applied to the decorated block gives a DOM that
\* differs from the one the first application gave: the former ul is taken
\* as a single row, so the new ul has one li, which holds the N former li.
C18_CardsNotIdempotent ==
    (cardsPc = "redecorated" /\ Len(cardsOrig.kids) >= 2) =>
        /\ cardsBlock # CardsDecorate(cardsOrig)
        /\ Len(cardsBlock.kids) = 1
        /\ LET ul == cardsBlock.kids[1] IN
              /\ ul.tag = "ul"
              /\ Len(ul.kids) = 1
              /\ Len(CardsDecorate(cardsOrig).kids[1].kids) = Len(cardsOrig.kids)
              /\ Len(ul.kids[1].kids) = Len(cardsOrig.kids)
              /\ \A i \in 1..Len(ul.kids[1].kids) : ul.kids[1].kids[i].tag = "li"

C18_Witness ==
    /\ cardsPc = "redecorated"
    /\ Len(cardsOrig.kids) = 2
    /\ Len(cardsBlock.kids[1].kids) = 1

(***************************************************************************)
(* The faq block on its own.                                               *)
(***************************************************************************)
InitFaq ==
    /\ BootOff /\ CardsOff /\ FaqInit /\ PostsOff /\ HlxOff
    /\ HeroOff /\ LocaleOff /\ SheetOff /\ DataOff

NextFaq ==
    \/ FaqDecorateBlock
    \/ FaqClick

SpecFaq == InitFaq /\ [][NextFaq]_vars

\* C9: in the faq block, after decoration and after any clicks on its toggle
\* buttons, at most one panel is open: at most one button has
\* aria-expanded="true" and at most one answer of a decorated item is shown.
C9_AtMostOneOpen ==
    faqPc \in {"decorated", "threw"} =>
        /\ Cardinality({i \in 1..Len(faqItems) : faqItems[i].expanded = "true"}) <= 1
        /\ Cardinality({i \in 1..Len(faqItems) :
                           faqItems[i].button /\ ~faqItems[i].hidden}) <= 1
        /\ faqPc = "decorated" =>
              Cardinality({i \in 1..Len(faqItems) : ~faqItems[i].hidden}) <= 1

C9_Witness ==
    /\ faqPc = "decorated"
    /\ faqClicks = 2
    /\ Len(faqItems) >= 2
    /\ faqItems[2].expanded = "true"
    /\ ~faqItems[2].hidden
    /\ faqItems[1].hidden

\* C21: in a decorated faq block every item starts collapsed (its button has
\* aria-expanded "false", its answer is hidden); a click on the button of a
\* collapsed item expands that item and leaves every other item collapsed;
\* a click on the button of the expanded item collapses it, and all items
\* are collapsed.
C21_FaqToggle ==
    /\ [](/\ faqPc = "decorated" => \A i \in 1..Len(faqItems) : faqItems[i].button
          /\ (faqPc \in {"decorated", "threw"} /\ faqClicks = 0)
                => \A i \in 1..Len(faqItems) :
                       faqItems[i].button
                           => (faqItems[i].expanded = "false" /\ faqItems[i].hidden))
    /\ [][faqClicks' = faqClicks + 1 =>
            LET i == faqLast' IN
                /\ i \in 1..Len(faqItems)
                /\ faqItems[i].button
                /\ \A j \in 1..Len(faqItems) :
                      (faqItems[j].button /\ j # i)
                          => (faqItems'[j].expanded = "false" /\ faqItems'[j].hidden)
                /\ faqItems[i].expanded = "false"
                      => (faqItems'[i].expanded = "true" /\ ~faqItems'[i].hidden)
                /\ faqItems[i].expanded = "true"
                      => (faqItems'[i].expanded = "false" /\ faqItems'[i].hidden)]_vars

C21_Witness ==
    /\ faqPc = "decorated"
    /\ Len(faqItems) = 3
    /\ faqClicks = 3
    /\ faqLast = 2
    /\ \A i \in 1..3 : faqItems[i].expanded = "false" /\ faqItems[i].hidden

\* C25: in every state of the faq block that clicks can reach, the three
\* indicators of each item with a button agree: aria-expanded is "true"
\* exactly when the answer is not hidden, and exactly when the icon is the
\* minus sign and not "+".
C25_FaqIndicatorsAgree ==
    faqPc \in {"decorated", "threw"} =>
        \A i \in 1..Len(faqItems) :
            faqItems[i].button =>
                /\ faqItems[i].expanded \in {"true", "false"}
                /\ faqItems[i].icon \in {"+", "minus"}
                /\ faqItems[i].expanded = "true" <=> ~faqItems[i].hidden
                /\ faqItems[i].expanded = "true" <=> faqItems[i].icon = "minus"

C25_Witness ==
    /\ faqPc = "decorated"
    /\ faqClicks = 2
    /\ Len(faqItems) = 2
    /\ faqItems[1] = [cells |-> 2, button |-> TRUE, expanded |-> "false",
                      icon |-> "+", hidden |-> TRUE]
    /\ faqItems[2] = [cells |-> 2, button |-> TRUE, expanded |-> "true",
                      icon |-> "minus", hidden |-> FALSE]

(***************************************************************************)
(* The latest-posts block on its own.                                      *)
(***************************************************************************)
InitPosts ==
    /\ BootOff /\ CardsOff /\ FaqOff /\ PostsInit /\ HlxOff
    /\ HeroOff /\ LocaleOff /\ SheetOff /\ DataOff

NextPosts ==
    \/ PostsDecorate
    \/ PostsFetchSettles
    \/ PostsJsonSettles
    \/ PostsRender

SpecPosts == InitPosts /\ [][NextPosts]_vars

\* C6: in the latest-posts block, when the fetch rejects or the body of the
\* response does not parse, decorate catches the error: the content of the
\* block is the static failure message, the promise of decorate resolves (it
\* never rejects), and the fetch is not issued again.
C6_FetchErrorCaught ==
    /\ postsResult # "rejected"
    /\ postsFetches <= 1
    /\ (postsPc = "settled"
           /\ (postsNet.fetch = "rejects" \/ postsNet.body = "unparsable"))
          => /\ postsHtml = Html("failed", <<>>)
             /\ postsResult = "resolved"
             /\ postsFetches = 1

C6_Witness ==
    /\ postsPc = "settled"
    /\ postsNet.body = "unparsable"
    /\ postsHtml.kind = "failed"
    /\ postsResult = "resolved"

\* C24: once decorate of latest-posts has settled, the block does not show
\* the "Loading posts..." placeholder: its content is the rendered list or
\* the static failure message, also when the error was thrown after the
\* placeholder had been cleared; before that the placeholder or the cleared
\* block is only seen while decorate is pending.
C24_NoPlaceholderLeft ==
    /\ [](/\ postsPc = "settled"
                => /\ postsHtml.kind \in {"list", "failed"}
                   /\ postsResult = "resolved"
          /\ postsHtml.kind \in {"loading", "empty"}
                => /\ postsPc \in {"fetching", "parsing", "rendering"}
                   /\ postsResult = "pending")
    /\ [][(postsHtml.kind = "empty" /\ postsPc' = "settled" /\ postsErrors' # postsErrors)
             => postsHtml' = Html("failed", <<>>)]_vars

C24_Witness ==
    /\ postsPc = "settled"
    /\ postsNet.data = "list"
    /\ Len(postsNet.entries) = 2
    /\ \A i \in 1..2 : postsNet.entries[i] = "blog"
    /\ postsErrors = 1
    /\ postsHtml = Html("failed", <<>>)

(***************************************************************************)
(* The decorators that share window.hlx.                                   *)
(***************************************************************************)
InitHlx ==
    /\ BootOff /\ CardsOff /\ FaqOff /\ PostsOff /\ HlxInit
    /\ HeroOff /\ LocaleOff /\ SheetOff /\ DataOff

NextHlx ==
    \/ HlxWrite
    \/ HlxRead

SpecHlx == InitHlx /\ [][NextHlx]_vars

\* C7: decorators that write window.hlx each under its own key lose no write,
\* whatever the interleaving: a key holds its writer's value from the write
\* on, the framework's key is kept, and when all are done the object is the
\* same in every interleaving.
C7_IndependentKeys ==
    /\ hlx[0] = "codeBasePath"
    /\ \A d \in Decorators :
          hlx[d] = IF hlxPc[d] = "todo" THEN Absent ELSE hlxVal[d]
    /\ (\A d \in Decorators : hlxPc[d] = "done")
          => hlx = [k \in HlxKeys |-> IF k = 0 THEN "codeBasePath" ELSE hlxVal[k]]

C7_Witness ==
    /\ \A d \in Decorators : hlxPc[d] = "done"
    /\ hlxSeen[1] = Absent
    /\ hlxSeen[2] # Absent

(***************************************************************************)
(* The hero script on its own.                                             *)
(***************************************************************************)
InitHero ==
    /\ BootOff /\ CardsOff /\ FaqOff /\ PostsOff /\ HlxOff
    /\ HeroInit /\ LocaleOff /\ SheetOff /\ DataOff

NextHero ==
    \/ HeroRun
    \/ HeroRunAgain

SpecHero == InitHero /\ [][NextHero]_vars

\* C13: the hero script acts on every hero block of the page: once it has
\* run, in every hero block, not only the first in document order, an h1
\* whose text started with FeDX has each DX of its markup wrapped in
\* <span class="dx">.
C13_EveryHeroBlock ==
    heroPc = "ran" =>
        \A b \in 1..Len(heroOrig) :
            (heroOrig[b] # <<>> /\ StartsWith(CleanText(TextOnly(heroOrig[b][1])), FeDX))
                => LET h1 == heroDoc[b][1] IN
                       \A i \in 1..(Len(h1) - 1) :
                           (h1[i] = "D" /\ h1[i + 1] = "X")
                               => /\ i > 1
                                  /\ h1[i - 1] = SpanOpen
                                  /\ i + 2 <= Len(h1)
                                  /\ h1[i + 2] = SpanClose

\* C19: hero.js assigns the innerHTML of an h1 if and only if the document has
\* a .hero, the first .hero has an h1, and the text of the direct child text
\* nodes of its first h1, without newline, carriage return and tab and
\* without white space at its ends, starts with FeDX (case-sensitive); in
\* every other case the document is as it was.
C19_HeroRewriteIff ==
    heroPc = "ran" =>
        LET h == heroOrig[1][1]
            Before(S, i) == Cardinality({j \in 1..(i - 1) : h[j] \in S})
            Kept == {i \in 1..Len(h) :
                        /\ h[i] \in TextChars \ {"\n", "\r", "\t"}
                        /\ Before(StartTags, i) = Before(EndTags, i)
                        /\ Before({ImgAlt}, i) = Before({AttrEnd}, i)}
            Adjacent(a, b) == a < b /\ \A k \in Kept : ~(a < k /\ k < b)
            starts == \E f, e, d, x \in Kept :
                         /\ h[f] = "F" /\ h[e] = "e" /\ h[d] = "D" /\ h[x] = "X"
                         /\ Adjacent(f, e) /\ Adjacent(e, d) /\ Adjacent(d, x)
                         /\ \A k \in Kept : k < f => h[k] = " "
            rewrites == /\ heroOrig # <<>>
                        /\ heroOrig[1] # <<>>
                        /\ starts
        IN  /\ heroWrites = (IF rewrites THEN 1 ELSE 0)
            /\ ~rewrites => heroDoc = heroOrig

C19_Witness ==
    /\ heroPc = "ran"
    /\ heroWrites = 1
    /\ Len(heroOrig) = 2
    /\ heroOrig[1][1] = <<"<picture>", ImgAlt, "D", "X", AttrEnd, "</picture>">> \o FeDX
    /\ heroOrig[2] = <<<<"F", "e", "<em>", "D", "X", "</em>">>>>

\* C20: when hero.js rewrites the h1, every occurrence of DX in the former
\* innerHTML, inside child elements and attribute values too, is replaced by
\* <span class="dx">DX</span>: the new innerHTML is the former one with a
\* span put around each DX and nothing else changed, and the number of
\* spans put in is the number of occurrences of DX in the former innerHTML.
C20_EveryDXWrapped ==
    (heroPc = "ran" /\ heroWrites = 1) =>
        LET old == heroOrig[1][1]
            new == heroDoc[1][1]
            Count(h, t) == Cardinality({i \in 1..Len(h) : h[i] = t})
            DXs(h) == {i \in 1..(Len(h) - 1) : h[i] = "D" /\ h[i + 1] = "X"}
        IN  /\ Count(new, SpanOpen) - Count(old, SpanOpen) = Cardinality(DXs(old))
            /\ Count(new, SpanClose) - Count(old, SpanClose) = Cardinality(DXs(old))
            /\ Cardinality(DXs(new)) = Cardinality(DXs(old))
            /\ SelectSeq(new, LAMBDA t : t \notin {SpanOpen, SpanClose}) = old
            /\ \A i \in DXs(new) :
                  /\ i > 1
                  /\ new[i - 1] = SpanOpen
                  /\ i + 2 <= Len(new)
                  /\ new[i + 2] = SpanClose

C20_Witness ==
    /\ heroPc = "ran"
    /\ heroWrites = 1
    /\ heroOrig[1][1] = <<"<picture>", ImgAlt, "D", "X", AttrEnd, "</picture>">> \o FeDX
    /\ heroDoc[1][1] = <<"<picture>", ImgAlt, SpanOpen, "D", "X", SpanClose, AttrEnd,
                         "</picture>", "F", "e", SpanOpen, "D", "X", SpanClose>>

\* C27: hero.js changes at most one element, the first h1 of the first .hero
\* in document order: after a run, and after a second run, the document has
\* the hero blocks and the h1 elements it had, and every h1 but that one,
\* in the first hero block and in every other, has the innerHTML it had.
C27_OnlyFirstH1 ==
    heroPc \in {"ran", "reran"} =>
        /\ Len(heroDoc) = Len(heroOrig)
        /\ \A b \in 1..Len(heroOrig) :
              /\ Len(heroDoc[b]) = Len(heroOrig[b])
              /\ \A j \in 1..Len(heroOrig[b]) :
                    (b # 1 \/ j # 1) => heroDoc[b][j] = heroOrig[b][j]

C27_Witness ==
    /\ heroPc = "ran"
    /\ heroOrig = << <<FeDX, FeDX>>, <<FeDX, FeDX>> >>
    /\ heroDoc[1][1] = <<"F", "e", SpanOpen, "D", "X", SpanClose>>
    /\ heroDoc[1][2] = FeDX
    /\ heroDoc[2] = <<FeDX, FeDX>>

\* A DX of the markup that stands in two nested span.dx elements.
NestedDX(h1) ==
    \E i \in 1..(Len(h1) - 3) :
        h1[i] = SpanOpen /\ h1[i + 1] = SpanOpen /\ h1[i + 2] = "D" /\ h1[i + 3] = "X"

\* C26 as stated: a second run of the body of hero.js changes nothing, and
\* no DX is wrapped in two nested span.dx elements.
C26_HeroIdempotent ==
    /\ [][(heroPc = "ran" /\ heroPc' = "reran") => heroDoc' = heroDoc]_vars
    /\ [](\A b \in 1..Len(heroDoc) :
             \A j \in 1..Len(heroDoc[b]) : ~NestedDX(heroDoc[b][j]))

\* C26, amended: a second run of the body of hero.js changes nothing when
\* the direct text of the h1 the first run has left no longer starts with
\* FeDX, or when its innerHTML holds no DX; when the direct text still starts
\* with FeDX and the innerHTML holds a DX, the second run wraps the wrapped
\* DX again, in two nested span.dx elements.  Nested spans come from a
\* second run only.
C26_SecondRun ==
    /\ [][(heroPc = "ran" /\ heroPc' = "reran") =>
            LET again ==
                    /\ heroDoc # <<>>
                    /\ heroDoc[1] # <<>>
                    /\ StartsWith(CleanText(TextOnly(heroDoc[1][1])), FeDX)
                    /\ \E i \in 1..(Len(heroDoc[1][1]) - 1) :
                          heroDoc[1][1][i] = "D" /\ heroDoc[1][1][i + 1] = "X"
            IN  /\ ~again => heroDoc' = heroDoc
                /\ again => (heroDoc' # heroDoc /\ NestedDX(heroDoc'[1][1]))]_vars
    /\ [](heroPc \in {"parsed", "ran"}
            => \A b \in 1..Len(heroDoc) :
                  \A j \in 1..Len(heroDoc[b]) : ~NestedDX(heroDoc[b][j]))
    /\ []((heroPc = "reran" /\ heroOrig # <<>> /\ heroOrig[1] # <<>>
              /\ heroOrig[1][1] = FeDX)
            => heroDoc[1][1] = <<"F", "e", SpanOpen, "D", "X", SpanClose>>)

C26_Witness ==
    /\ heroPc = "reran"
    /\ Len(heroOrig) = 1
    /\ Len(heroOrig[1]) = 1
    /\ heroOrig[1][1] = <<"F", "e", "D", "<em>", "D", "X", "</em>", "X">>
    /\ heroWrites = 2
    /\ heroDoc[1][1] = <<"F", "e", "D", "<em>", SpanOpen, SpanOpen, "D", "X",
                         SpanClose, SpanClose, "</em>", "X">>

(***************************************************************************)
(* getLocale on its own.                                                   *)
(***************************************************************************)
InitLocale ==
    /\ BootOff /\ CardsOff /\ FaqOff /\ PostsOff /\ HlxOff
    /\ HeroOff /\ LocaleInit /\ SheetOff /\ DataOff

NextLocale == GetLocaleCall

SpecLocale == InitLocale /\ [][NextLocale]_vars

\* C14: without 'locale' metadata getLocale returns as prefix the longest key
\* of the configuration that equals the pathname or is followed in it by a
\* slash: '/de/d' and '/de' give '/de' when it is configured, '/dee' never
\* gives '/de', and when no non-empty key matches the prefix is '', with lang
\* 'en' when the configuration has the default locale.
C14_LongestPrefix ==
    (locPc = "returned" /\ locMeta = <<>>) =>
        LET Under(k) == \/ locPath = k
                        \/ /\ Len(locPath) > Len(k)
                           /\ SubSeq(locPath, 1, Len(k)) = k
                           /\ locPath[Len(k) + 1] = "/"
            M == {k \in Range(locKeys) : k # <<>> /\ Under(k)}
            de == <<"/", "d", "e">>
        IN  /\ M # {} => /\ locResult.prefix \in M
                         /\ \A k \in M : Len(k) <= Len(locResult.prefix)
                         /\ locResult = LocaleEntry(locResult.prefix)
                                            @@ [prefix |-> locResult.prefix]
            /\ M = {} => /\ locResult.prefix = <<>>
                         /\ <<>> \in Range(locKeys)
                               => (locResult.lang = "en" /\ locLang = "en")
            /\ (de \in Range(locKeys) /\ locPath \in {de, de \o <<"/", "d">>})
                  => (locResult.prefix = de /\ locResult.lang = "de")
            /\ locPath = de \o <<"e">> => locResult.prefix # de

C14_Witness ==
    /\ locPc = "returned"
    /\ locMeta = <<>>
    /\ locPath = <<"/", "d", "/", "e", "/">>
    /\ locKeys = <<<<>>, <<"/", "d">>, <<"/", "d", "/", "e">>, <<"/", "d", "e">>>>
    /\ locResult.prefix = <<"/", "d", "/", "e">>

\* C15: a non-empty 'locale' metadata value is returned as prefix whatever
\* the pathname is; the lang of the document is set exactly when the
\* configuration has a lang for the chosen prefix, and when the prefix is
\* not a key of the configuration the lang is as it was and the result holds
\* the prefix only.
C15_MetadataOverrides ==
    locPc = "returned" =>
        /\ locMeta # <<>> => locResult.prefix = locMeta
        /\ LET p == locResult.prefix IN
              /\ (p \in Range(locKeys) /\ "lang" \in DOMAIN LocaleEntry(p))
                    => (locLang = LocaleEntry(p).lang /\ locResult.lang = locLang)
              /\ ~(p \in Range(locKeys) /\ "lang" \in DOMAIN LocaleEntry(p))
                    => (locLang = "" /\ "lang" \notin DOMAIN locResult)
              /\ p \notin Range(locKeys) => DOMAIN locResult = {"prefix"}

C15_Witness ==
    /\ locPc = "returned"
    /\ locMeta = <<"/", "f", "r">>
    /\ locPath = <<"/", "d", "e", "/", "d">>
    /\ <<"/", "d", "e">> \in Range(locKeys)
    /\ locResult = [prefix |-> <<"/", "f", "r">>]
    /\ locLang = ""

\* C29: among the keys of the configuration that match the pathname at most
\* one has the greatest length, and what getLocale returns, and the lang it
\* sets, are the same for every order in which the keys of the same
\* configuration are enumerated.
C29_OrderIndependent ==
    locPc = "returned" =>
        LET Under(k) == \/ locPath = k
                        \/ /\ Len(locPath) > Len(k)
                           /\ SubSeq(locPath, 1, Len(k)) = k
                           /\ locPath[Len(k) + 1] = "/"
            M == {k \in Range(locKeys) : Under(k)}
            Longest == {k \in M : \A m \in M : Len(m) <= Len(k)}
        IN  /\ Cardinality(Longest) <= 1
            /\ \A o \in KeyOrders :
                  Range(o) = Range(locKeys)
                      => getLocale(o, locPath, locMeta, "")
                             = [lang |-> locLang, result |-> locResult]
            /\ (locMeta = <<>> /\ Longest # {}) => locResult.prefix \in Longest

C29_Witness ==
    /\ locPc = "returned"
    /\ locMeta = <<>>
    /\ locPath = <<"/", "d", "/", "e">>
    /\ locKeys = <<<<>>, <<"/", "d">>, <<"/", "d", "/", "e">>>>
    /\ locResult.prefix = <<"/", "d", "/", "e">>

(***************************************************************************)
(* loadCSS on its own.                                                     *)
(***************************************************************************)
InitSheet ==
    /\ BootOff /\ CardsOff /\ FaqOff /\ PostsOff /\ HlxOff
    /\ HeroOff /\ LocaleOff /\ SheetInit /\ DataOff

NextSheet ==
    \/ loadCSS
    \/ cssOnload

SpecSheet == InitSheet /\ [][NextSheet]_vars

InitData ==
    /\ BootOff /\ CardsOff /\ FaqOff /\ PostsOff /\ HlxOff
    /\ HeroOff /\ LocaleOff /\ SheetOff /\ DataInit

NextData ==
    \/ DataDecorate
    \/ DataFetchSettles
    \/ DataJsonSettles

SpecData == InitData /\ [][NextData]_vars

\* C22: in the error-handling pattern a response whose ok flag is false is
\* a failure: render is not called for it at any time, and when decorate has
\* settled the content of the block is the static "Content unavailable"
\* message, with one error logged: the outcome of a rejected fetch.
C22_NotOkIsFailure ==
    LET notOk == dataNet.fetch = "response" /\ dataNet.status \notin 200..299
        rejected == dataNet.fetch = "rejects"
    IN  dataPc # "off" =>
          /\ (notOk \/ rejected) => dataRenders = 0
          /\ (dataPc = "settled" /\ (notOk \/ rejected))
                => /\ dataHtml = "unavailable"
                   /\ dataErrors = 1
                   /\ dataResult = "resolved"
          /\ dataHtml = "rendered" => dataNet.status \in 200..299

C22_Witness ==
    /\ dataPc = "settled"
    /\ dataNet.fetch = "response"
    /\ dataNet.status = 404
    /\ dataNet.body = "json"
    /\ dataNet.render = "returns"
    /\ dataRenders = 0
    /\ dataHtml = "unavailable"

====
